---------------------------- MODULE Spec2Model ----------------------------
(***************************************************************************)
(* Model of scripts/add-entry/src/main.rs: the add-entry tool of the       *)
(* notebook template.  Three parts of the program are modelled:            *)
(*   - the colour decoder (decode_hex, EntryType::from_string_pair),       *)
(*   - the theme resolver (query_entry_type_metadata),                     *)
(*   - the entry materializer (the tail of main: title check, directory    *)
(*     chain, exclusive file creation, aggregator append).                 *)
(* Text is a sequence of one-character strings, so that splitting,         *)
(* trimming and substring search are computed as the program computes      *)
(* them.                                                                   *)
(***************************************************************************)
EXTENDS Integers, Sequences, FiniteSets, TLC

VARIABLES
    dirs,           \* file system: the directories (normalised paths)
    files,          \* file system: entry files, normalised path -> content
    entries_typ,    \* file system: ./entries/entries.typ, [exists, bytes]
    pc,             \* per invocation: position in main
    title_input,    \* per invocation: main's title_input
    section,        \* per invocation: main's section
    new_dir_path,   \* per invocation: main's new_dir_path (lines 370-373)
    part_idx,       \* per invocation: position of the loop of line 371
    exit_msg,       \* per invocation: what the run ended with
    runs,           \* number of invocations started so far
    fault_used,     \* an injected write error has happened
    start_fs,       \* history: the file system when the invocation started
    created,        \* history: the invocation created its entry file
    wrote_entry,    \* history: the invocation wrote to its entry file
    appended,       \* history: the invocation wrote to entries.typ
    raw_metadata,   \* what the typst query returned (line 184)
    user_themes,    \* the theme texts found in ./main.typ (lines 229-254)
    qpc,            \* per invocation: position in query_entry_type_metadata
    theme_entries_map,  \* per invocation: the HashMap of line 186
    resolved,       \* per invocation: what the resolver returned
    entry_types_vec,    \* per invocation: main's entry_types_vec (line 280)
    type_scroll,    \* per invocation: the values of the "type" scroll
    color_str,      \* the colour text given to from_string_pair
    color_result,   \* what from_string_pair made of it
    cpc             \* position of the colour decoding

fsVars == <<dirs, files, entries_typ>>
procVars == <<pc, title_input, section, new_dir_path, part_idx, exit_msg>>
histVars == <<start_fs, created, wrote_entry, appended>>
matVars == <<dirs, files, entries_typ, pc, title_input, section, new_dir_path,
             part_idx, exit_msg, runs, fault_used, start_fs, created,
             wrote_entry, appended>>
themeVars == <<raw_metadata, user_themes, qpc, theme_entries_map, resolved,
               entry_types_vec, type_scroll>>
colorVars == <<color_str, color_result, cpc>>
vars == <<matVars, themeVars, colorVars>>

\* Bound: invocations of the tool, one after the other, in one behaviour.
MaxRuns == 2

Procs == {1, 2}

---------------------------------------------------------------------------
(* Text helpers: str::split, to_lowercase, replace, trim_*_matches.        *)

Last(s) == s[Len(s)]

RECURSIVE SplitFrom(_, _, _, _)
SplitFrom(s, sep, i, cur) ==
    IF i > Len(s) THEN <<cur>>
    ELSE IF s[i] = sep THEN <<cur>> \o SplitFrom(s, sep, i + 1, <<>>)
    ELSE SplitFrom(s, sep, i + 1, Append(cur, s[i]))

\* str::split(sep).collect(): "" gives [""], "a/" gives ["a", ""].
Split(s, sep) == SplitFrom(s, sep, 1, <<>>)

Upper == <<"A","B","C","D","E","F","G","H","I","J","K","L","M",
           "N","O","P","Q","R","S","T","U","V","W","X","Y","Z">>
Lower == <<"a","b","c","d","e","f","g","h","i","j","k","l","m",
           "n","o","p","q","r","s","t","u","v","w","x","y","z">>

LowerChar(c) ==
    IF \E i \in 1..Len(Upper) : Upper[i] = c
    THEN Lower[CHOOSE i \in 1..Len(Upper) : Upper[i] = c]
    ELSE c

to_lowercase(s) == [i \in 1..Len(s) |-> LowerChar(s[i])]

\* str::replace(from, to) for one-character patterns.
replace(s, from, to) == [i \in 1..Len(s) |-> IF s[i] = from THEN to ELSE s[i]]

IsPrefix(pat, s) == Len(pat) <= Len(s) /\ SubSeq(s, 1, Len(pat)) = pat
IsSuffix(pat, s) ==
    Len(pat) <= Len(s) /\ SubSeq(s, Len(s) - Len(pat) + 1, Len(s)) = pat

\* str::trim_start_matches(pat): removes every repetition of pat at the start.
RECURSIVE trim_start_matches(_, _)
trim_start_matches(s, pat) ==
    IF Len(pat) > 0 /\ IsPrefix(pat, s)
    THEN trim_start_matches(SubSeq(s, Len(pat) + 1, Len(s)), pat)
    ELSE s

\* str::trim_end_matches(pat): removes every repetition of pat at the end.
RECURSIVE trim_end_matches(_, _)
trim_end_matches(s, pat) ==
    IF Len(pat) > 0 /\ IsSuffix(pat, s)
    THEN trim_end_matches(SubSeq(s, 1, Len(s) - Len(pat)), pat)
    ELSE s

---------------------------------------------------------------------------
(* The derivations of main, lines 333-334, 348-368, 389, 405-408.          *)

DotEntriesSlash == <<".", "/", "e", "n", "t", "r", "i", "e", "s", "/">>
DotTyp == <<".", "t", "y", "p">>
IncludeHead == <<"\n", "\n", "#", "i", "n", "c", "l", "u", "d", "e", " ", "\"">>
IncludeTail == <<"\"">>

\* Mutant of title: the first segment instead of the last.
title_first_segment(ti) == Split(ti, "/")[1]

\* line 334: title_input.split('/').last().unwrap()
title(ti) == Last(Split(ti, "/"))

\* lines 348-360: the template; the fields the menu run chooses here.
entry_content(sec, ti) == [section |-> sec, title |-> title(ti)]

\* lines 362-366
entry_dir_path(ti) ==
    DotEntriesSlash
        \o trim_end_matches(replace(to_lowercase(ti), " ", "_"), <<"/">>)

\* line 367
entry_file_path_vec(ti) == Split(entry_dir_path(ti), "/")

\* line 368
entry_file_name(ti) == Last(entry_file_path_vec(ti))

\* line 389: format!("{}/{}.typ", entry_dir_path, entry_file_name)
entry_file_path(ti) ==
    entry_dir_path(ti) \o <<"/">> \o entry_file_name(ti) \o DotTyp

\* Mutant of include_chunk: the path is written with its leading '.'.
include_chunk_keep_dot(ti) == IncludeHead \o entry_file_path(ti) \o IncludeTail

\* lines 405-408: "\n\n#include \"{}\"" of the path without its leading dots
include_chunk(ti) ==
    IncludeHead \o trim_start_matches(entry_file_path(ti), <<".">>) \o IncludeTail

---------------------------------------------------------------------------
(* The file system the program runs on.  A path names the sequence of its  *)
(* segments that are neither empty nor "."; <<>> is the working directory. *)

Norm(path) == SelectSeq(Split(path, "/"), LAMBDA seg : seg # <<>> /\ seg # <<".">>)

Parent(n) == SubSeq(n, 1, Len(n) - 1)

Entries == <<"e", "n", "t", "r", "i", "e", "s">>
EntriesTyp == <<"e", "n", "t", "r", "i", "e", "s", ".", "t", "y", "p">>
\* "./entries/entries.typ" (lines 401)
AggPath == <<Entries, EntriesTyp>>

PathExists(n, d, f, agg) ==
    n \in d \/ n \in DOMAIN f \/ (n = AggPath /\ agg.exists)

\* fs::create_dir: "Ok", "AlreadyExists" or another error kind.
create_dir(path, d, f, agg) ==
    LET n == Norm(path) IN
    IF PathExists(n, d, f, agg) THEN "AlreadyExists"
    ELSE IF Parent(n) \notin d THEN "NotFound"
    ELSE "Ok"

\* Mutant of create_new: fs::File::create, which opens an existing file.
create_truncating(path, d, f, agg) ==
    LET n == Norm(path) IN
    IF n \in d THEN "IsADirectory"
    ELSE IF Parent(n) \notin d THEN "NotFound"
    ELSE "Ok"

\* fs::File::create_new (line 390): exclusive creation.
create_new(path, d, f, agg) ==
    LET n == Norm(path) IN
    IF PathExists(n, d, f, agg) THEN "AlreadyExists"
    ELSE IF Parent(n) \notin d THEN "NotFound"
    ELSE "Ok"

\* An entry file just created, nothing written yet.
EmptyFile == [section |-> "", title |-> <<>>]

Put(f, n, content) == [m \in DOMAIN f \cup {n} |-> IF m = n THEN content ELSE f[m]]

---------------------------------------------------------------------------
(* What the menu run can return (lines 320-342).                           *)

Sections == {"body", "frontmatter", "appendix"}

NestedDeepEntrySlash ==
    <<"N","e","s","t","e","d","/","D","e","e","p"," ","E","n","t","r","y","/">>

Titles ==
    { <<>>,
      <<"A">>,
      <<"a">>,
      <<"A", " ", "b">>,
      <<"A", "/", "b">>,
      <<"A", "/", "b", "/">>,
      <<"/">>,
      <<"/", "A">>,
      NestedDeepEntrySlash }

InitialAggregator == { <<>>, <<"/", "/">> }

FsNow == [dirs |-> dirs, files |-> files, entries_typ |-> entries_typ]

---------------------------------------------------------------------------
(* main, from the menu run to the exit (lines 320-416), for invocation p.  *)

\* lines 320-342: the menu runs and its values are read.
RunMenu(p) ==
    /\ pc[p] = "menu"
    /\ \E t \in Titles, s \in Sections :
        /\ title_input' = [title_input EXCEPT ![p] = t]
        /\ section' = [section EXCEPT ![p] = s]
    /\ pc' = [pc EXCEPT ![p] = "check_title"]
    /\ start_fs' = [start_fs EXCEPT ![p] = FsNow]
    /\ created' = [created EXCEPT ![p] = FALSE]
    /\ wrote_entry' = [wrote_entry EXCEPT ![p] = FALSE]
    /\ appended' = [appended EXCEPT ![p] = FALSE]
    /\ UNCHANGED <<fsVars, new_dir_path, part_idx, exit_msg, runs, fault_used>>
    /\ UNCHANGED <<themeVars, colorVars>>

\* lines 344-370: the title check, the paths, and the start of the loop.
CheckTitle(p) ==
    /\ pc[p] = "check_title"
    /\ IF Len(title(title_input[p])) = 0
       THEN /\ pc' = [pc EXCEPT ![p] = "exit_err"]
            /\ exit_msg' = [exit_msg EXCEPT ![p] = "title must be specified!"]
            /\ UNCHANGED <<new_dir_path, part_idx>>
       ELSE /\ pc' = [pc EXCEPT ![p] = "mkdir"]
            /\ new_dir_path' =
                 [new_dir_path EXCEPT ![p] = entry_file_path_vec(title_input[p])[1]]
            /\ part_idx' = [part_idx EXCEPT ![p] = 2]
            /\ UNCHANGED exit_msg
    /\ UNCHANGED <<fsVars, title_input, section, runs, fault_used, histVars>>
    /\ UNCHANGED <<themeVars, colorVars>>

\* lines 371-386: one turn of the loop over the path parts.
CreateDir(p) ==
    /\ pc[p] = "mkdir"
    /\ LET vec == entry_file_path_vec(title_input[p])
           path == new_dir_path[p] \o <<"/">> \o vec[part_idx[p]]
           res == create_dir(path, dirs, files, entries_typ)
       IN /\ new_dir_path' = [new_dir_path EXCEPT ![p] = path]
          /\ dirs' = IF res = "Ok" THEN dirs \cup {Norm(path)} ELSE dirs
          /\ IF res \in {"Ok", "AlreadyExists"}
             THEN /\ part_idx' = [part_idx EXCEPT ![p] = @ + 1]
                  /\ pc' = [pc EXCEPT ![p] =
                              IF part_idx[p] = Len(vec) THEN "create_new" ELSE "mkdir"]
                  /\ UNCHANGED exit_msg
             ELSE /\ pc' = [pc EXCEPT ![p] = "panic"]
                  /\ exit_msg' = [exit_msg EXCEPT ![p] =
                                    "Failed to make part of entry directory"]
                  /\ UNCHANGED part_idx
    /\ UNCHANGED <<files, entries_typ, title_input, section, runs, fault_used,
                   histVars>>
    /\ UNCHANGED <<themeVars, colorVars>>

\* lines 389-391: the exclusive creation of the entry file.
CreateNew(p) ==
    /\ pc[p] = "create_new"
    /\ LET path == entry_file_path(title_input[p])
           res == create_new(path, dirs, files, entries_typ)
       IN IF res = "Ok"
          THEN /\ files' = Put(files, Norm(path), EmptyFile)
               /\ created' = [created EXCEPT ![p] = TRUE]
               /\ pc' = [pc EXCEPT ![p] = "write_entry"]
               /\ UNCHANGED exit_msg
          ELSE /\ pc' = [pc EXCEPT ![p] = "panic"]
               /\ exit_msg' = [exit_msg EXCEPT ![p] = "Failed to make entry typst file"]
               /\ UNCHANGED <<files, created>>
    /\ UNCHANGED <<dirs, entries_typ, title_input, section, new_dir_path, part_idx,
                   runs, fault_used, start_fs, wrote_entry, appended>>
    /\ UNCHANGED <<themeVars, colorVars>>

\* lines 392-397: the template is written and flushed.
WriteEntry(p) ==
    /\ pc[p] = "write_entry"
    /\ files' = Put(files, Norm(entry_file_path(title_input[p])),
                    entry_content(section[p], title_input[p]))
    /\ wrote_entry' = [wrote_entry EXCEPT ![p] = TRUE]
    /\ pc' = [pc EXCEPT ![p] = "open_agg"]
    /\ UNCHANGED <<dirs, entries_typ, title_input, section, new_dir_path, part_idx,
                   exit_msg, runs, fault_used, start_fs, created, appended>>
    /\ UNCHANGED <<themeVars, colorVars>>

\* lines 392-394: write_all returns an error (the file stays as created).
WriteEntryFail(p) ==
    /\ pc[p] = "write_entry"
    /\ ~fault_used
    /\ fault_used' = TRUE
    /\ pc' = [pc EXCEPT ![p] = "panic"]
    /\ exit_msg' = [exit_msg EXCEPT ![p] = "Failed to write to entry typst file"]
    /\ UNCHANGED <<fsVars, title_input, section, new_dir_path, part_idx, runs,
                   histVars>>
    /\ UNCHANGED <<themeVars, colorVars>>

\* Mutant of OpenAgg: the entry file is removed when the open fails.
OpenAggRollback(p) ==
    /\ pc[p] = "open_agg"
    /\ IF entries_typ.exists
       THEN /\ pc' = [pc EXCEPT ![p] = "append"]
            /\ UNCHANGED <<exit_msg, files>>
       ELSE /\ pc' = [pc EXCEPT ![p] = "panic"]
            /\ exit_msg' = [exit_msg EXCEPT ![p] = "Failed to open ./entries/entries.typ"]
            /\ files' = [m \in DOMAIN files \ {Norm(entry_file_path(title_input[p]))}
                            |-> files[m]]
    /\ UNCHANGED <<dirs, entries_typ, title_input, section, new_dir_path, part_idx,
                   runs, fault_used, histVars>>
    /\ UNCHANGED <<themeVars, colorVars>>

\* lines 399-402: entries.typ is opened for appending; it is never created.
OpenAgg(p) ==
    /\ pc[p] = "open_agg"
    /\ IF entries_typ.exists
       THEN /\ pc' = [pc EXCEPT ![p] = "append"]
            /\ UNCHANGED exit_msg
       ELSE /\ pc' = [pc EXCEPT ![p] = "panic"]
            /\ exit_msg' = [exit_msg EXCEPT ![p] = "Failed to open ./entries/entries.typ"]
    /\ UNCHANGED <<fsVars, title_input, section, new_dir_path, part_idx, runs,
                   fault_used, histVars>>
    /\ UNCHANGED <<themeVars, colorVars>>

\* lines 403-416: the include is appended and flushed; Ok(()).
AppendAgg(p) ==
    /\ pc[p] = "append"
    /\ entries_typ' = [entries_typ EXCEPT !.bytes = @ \o include_chunk(title_input[p])]
    /\ appended' = [appended EXCEPT ![p] = TRUE]
    /\ pc' = [pc EXCEPT ![p] = "done"]
    /\ UNCHANGED <<dirs, files, title_input, section, new_dir_path, part_idx,
                   exit_msg, runs, fault_used, start_fs, created, wrote_entry>>
    /\ UNCHANGED <<themeVars, colorVars>>

\* lines 403-411: write_all returns an error after k bytes, k short of all.
AppendAggFail(p) ==
    /\ pc[p] = "append"
    /\ ~fault_used
    /\ fault_used' = TRUE
    /\ \E k \in 0..(Len(include_chunk(title_input[p])) - 1) :
        entries_typ' = [entries_typ EXCEPT
                          !.bytes = @ \o SubSeq(include_chunk(title_input[p]), 1, k)]
    /\ pc' = [pc EXCEPT ![p] = "panic"]
    /\ exit_msg' = [exit_msg EXCEPT ![p] = "Failed to write to ./entries/entries.typ"]
    /\ UNCHANGED <<dirs, files, title_input, section, new_dir_path, part_idx, runs,
                   histVars>>
    /\ UNCHANGED <<themeVars, colorVars>>

Ended(p) == pc[p] \in {"done", "exit_err", "panic"}

\* The tool is started again on the same notebook.  The model follows the
\* notebook no further once a write has failed under it.
Restart(p) ==
    /\ Ended(p)
    /\ runs < MaxRuns
    /\ ~fault_used
    /\ runs' = runs + 1
    /\ pc' = [pc EXCEPT ![p] = "menu"]
    /\ exit_msg' = [exit_msg EXCEPT ![p] = ""]
    /\ UNCHANGED <<fsVars, title_input, section, new_dir_path, part_idx, fault_used,
                   histVars>>
    /\ UNCHANGED <<themeVars, colorVars>>

---------------------------------------------------------------------------
(* The parts of the state a specification does not exercise stay as here.  *)

NoResult == [kind |-> "none", theme |-> <<>>, entries |-> <<>>, diag |-> FALSE]
NoColor == [status |-> "none", r |-> 0, g |-> 0, b |-> 0]

ThemeIdle ==
    /\ raw_metadata = <<>>
    /\ user_themes = <<>>
    /\ qpc = [p \in Procs |-> "off"]
    /\ theme_entries_map = [p \in Procs |-> <<>>]
    /\ resolved = [p \in Procs |-> NoResult]
    /\ entry_types_vec = [p \in Procs |-> <<>>]
    /\ type_scroll = [p \in Procs |-> <<>>]

ColorIdle ==
    /\ color_str = <<>>
    /\ color_result = NoColor
    /\ cpc = "off"

---------------------------------------------------------------------------
(* Spec: invocations of the tool one after the other on one notebook.      *)

BaseDirs == {<<>>, <<Entries>>}

Init ==
    /\ \/ /\ dirs = BaseDirs
          /\ \E b \in InitialAggregator : entries_typ = [exists |-> TRUE, bytes |-> b]
       \/ /\ dirs \in {BaseDirs, {<<>>}}
          /\ entries_typ = [exists |-> FALSE, bytes |-> <<>>]
    /\ files = <<>>
    /\ pc = [p \in Procs |-> IF p = 1 THEN "menu" ELSE "off"]
    /\ title_input = [p \in Procs |-> <<>>]
    /\ section = [p \in Procs |-> "body"]
    /\ new_dir_path = [p \in Procs |-> <<>>]
    /\ part_idx = [p \in Procs |-> 0]
    /\ exit_msg = [p \in Procs |-> ""]
    /\ runs = 1
    /\ fault_used = FALSE
    /\ start_fs = [p \in Procs |-> FsNow]
    /\ created = [p \in Procs |-> FALSE]
    /\ wrote_entry = [p \in Procs |-> FALSE]
    /\ appended = [p \in Procs |-> FALSE]
    /\ ThemeIdle
    /\ ColorIdle

Next ==
    \/ RunMenu(1)
    \/ CheckTitle(1)
    \/ CreateDir(1)
    \/ CreateNew(1)
    \/ WriteEntry(1)
    \/ WriteEntryFail(1)
    \/ OpenAgg(1)
    \/ AppendAgg(1)
    \/ AppendAggFail(1)
    \/ Restart(1)

Spec == Init /\ [][Next]_vars

---------------------------------------------------------------------------
(* SpecConc: two invocations whose menus returned the same title run at    *)
(* the same time on one notebook; every file system call is one step.      *)

\* The directories of the chain of title t, all of them.
ChainDirs(t) ==
    LET n == Norm(entry_dir_path(t)) IN {SubSeq(n, 1, k) : k \in 0..Len(n)}

InitConc ==
    /\ \E t \in Titles :
        /\ title_input = [p \in Procs |-> t]
        /\ dirs \in {BaseDirs, BaseDirs \cup ChainDirs(t)}
    /\ \E b \in InitialAggregator : entries_typ = [exists |-> TRUE, bytes |-> b]
    /\ files = <<>>
    /\ pc = [p \in Procs |-> "check_title"]
    /\ section \in [Procs -> Sections]
    /\ new_dir_path = [p \in Procs |-> <<>>]
    /\ part_idx = [p \in Procs |-> 0]
    /\ exit_msg = [p \in Procs |-> ""]
    /\ runs = MaxRuns
    /\ fault_used = FALSE
    /\ start_fs = [p \in Procs |-> FsNow]
    /\ created = [p \in Procs |-> FALSE]
    /\ wrote_entry = [p \in Procs |-> FALSE]
    /\ appended = [p \in Procs |-> FALSE]
    /\ ThemeIdle
    /\ ColorIdle

NextConc ==
    \E p \in Procs :
        \/ CheckTitle(p)
        \/ CreateDir(p)
        \/ CreateNew(p)
        \/ WriteEntry(p)
        \/ OpenAgg(p)
        \/ AppendAgg(p)

SpecConc == InitConc /\ [][NextConc]_vars

---------------------------------------------------------------------------
(* The colour decoder: decode_hex and EntryType::from_string_pair.         *)

HexChars == <<"0", "1", "2", "3", "4", "5", "6", "7", "8", "9",
              "a", "b", "c", "d", "e", "f">>

\* char::to_digit(16): upper and lower case digits alike.
IsHexDigit(c) == \E i \in 1..Len(HexChars) : HexChars[i] = LowerChar(c)
DigitVal(c) == (CHOOSE i \in 1..Len(HexChars) : HexChars[i] = LowerChar(c)) - 1

RECURSIVE DigitsVal(_)
DigitsVal(ds) ==
    IF Len(ds) = 0 THEN 0
    ELSE DigitsVal(SubSeq(ds, 1, Len(ds) - 1)) * Len(HexChars) + DigitVal(Last(ds))

\* u8::from_str_radix(src, 16) (line 124): an empty text and a lone sign are
\* errors, a leading '+' is skipped, '-' is no digit of an unsigned type.
from_str_radix(src) ==
    IF Len(src) = 0 THEN [ok |-> FALSE, val |-> 0]
    ELSE IF Len(src) = 1 /\ src[1] \in {"+", "-"} THEN [ok |-> FALSE, val |-> 0]
    ELSE LET digits == IF src[1] = "+" THEN Tail(src) ELSE src IN
         IF \E i \in 1..Len(digits) : ~IsHexDigit(digits[i])
         THEN [ok |-> FALSE, val |-> 0]
         ELSE [ok |-> DigitsVal(digits) < 256, val |-> DigitsVal(digits) % 256]

\* decode_hex (lines 121-126): the pairs from the left; the first pair that
\* does not parse ends it with Err, a pair cut by the end of s panics in the
\* slice.  status is "ok", "err" or "slice_panic".
RECURSIVE decode_from(_, _, _)
decode_from(s, i, acc) ==
    IF i > Len(s) THEN [status |-> "ok", bytes |-> acc]
    ELSE IF i + 1 > Len(s) THEN [status |-> "slice_panic", bytes |-> <<>>]
    ELSE LET r == from_str_radix(SubSeq(s, i, i + 1)) IN
         IF r.ok THEN decode_from(s, i + 2, Append(acc, r.val))
         ELSE [status |-> "err", bytes |-> <<>>]

decode_hex(s) == decode_from(s, 1, <<>>)

RgbPrefix == <<"r", "g", "b", "(", "\"", "#">>
RgbSuffix == <<"\"", ")">>

\* EntryType::from_string_pair (lines 129-145), the colour of the pair:
\* status "ok" with the octets, or "panic".
from_string_pair(str) ==
    LET hex_color == trim_end_matches(trim_start_matches(str, RgbPrefix), RgbSuffix)
        hex_bytes == decode_hex(hex_color)
    IN IF hex_bytes.status # "ok" \/ Len(hex_bytes.bytes) # 3
       THEN [status |-> "panic", r |-> 0, g |-> 0, b |-> 0]
       ELSE [status |-> "ok", r |-> hex_bytes.bytes[1], g |-> hex_bytes.bytes[2],
             b |-> hex_bytes.bytes[3]]

\* Bounds of the colour texts tried: the digits between the literals, and
\* how often each literal is repeated.
MaxHexLen == 6
MaxRepeat == 2

HexAlphabet == {"0", "a", "F", "+", "g"}

RECURSIVE Repeat(_, _)
Repeat(s, n) == IF n = 0 THEN <<>> ELSE s \o Repeat(s, n - 1)

SeqsUpTo(S, n) == UNION {[1..k -> S] : k \in 0..n}

ColorInputs ==
    {Repeat(RgbPrefix, i) \o body \o Repeat(RgbSuffix, j) :
        i \in 0..MaxRepeat, j \in 0..MaxRepeat, body \in SeqsUpTo(HexAlphabet, MaxHexLen)}

MatIdle ==
    /\ dirs = BaseDirs
    /\ files = <<>>
    /\ entries_typ = [exists |-> TRUE, bytes |-> <<>>]
    /\ pc = [p \in Procs |-> "off"]
    /\ title_input = [p \in Procs |-> <<>>]
    /\ section = [p \in Procs |-> "body"]
    /\ new_dir_path = [p \in Procs |-> <<>>]
    /\ part_idx = [p \in Procs |-> 0]
    /\ exit_msg = [p \in Procs |-> ""]
    /\ runs = MaxRuns
    /\ fault_used = FALSE
    /\ start_fs = [p \in Procs |-> FsNow]
    /\ created = [p \in Procs |-> FALSE]
    /\ wrote_entry = [p \in Procs |-> FALSE]
    /\ appended = [p \in Procs |-> FALSE]

InitColor ==
    /\ MatIdle
    /\ ThemeIdle
    /\ color_str \in ColorInputs
    /\ color_result = NoColor
    /\ cpc = "start"

\* EntryType::from_string_pair is applied to the colour text.
FromStringPair ==
    /\ cpc = "start"
    /\ color_result' = from_string_pair(color_str)
    /\ cpc' = "done"
    /\ UNCHANGED <<matVars, themeVars, color_str>>

NextColor == FromStringPair

SpecColor == InitColor /\ [][NextColor]_vars

---------------------------------------------------------------------------
(* The theme resolver: query_entry_type_metadata (lines 154-271) and the   *)
(* menu main builds from its result (lines 279-318).                       *)

\* str::contains
contains(hay, needle) ==
    \E i \in 0..(Len(hay) - Len(needle)) : SubSeq(hay, i + 1, i + Len(needle)) = needle

\* line 263: the key "radial"
Radial == <<"r", "a", "d", "i", "a", "l">>
Polar == <<"p", "o", "l", "a", "r">>
\* a theme whose name is part of another theme's name
Dial == <<"d", "i", "a", "l">>

Red == RgbPrefix \o <<"F", "F", "0", "0", "0", "0">> \o RgbSuffix
Green == RgbPrefix \o <<"0", "0", "F", "F", "0", "0">> \o RgbSuffix
Blue == RgbPrefix \o <<"0", "0", "0", "0", "f", "f">> \o RgbSuffix
NotAColor == <<"r", "e", "d">>

\* Option<Vec<EntryTypeMetadata>> (line 99), colours already flattened to
\* their text (lines 201-206).
None == [some |-> FALSE, val |-> <<>>]
Some(v) == [some |-> TRUE, val |-> v]

NoEntries == <<>>

PaletteOf(name) ==
    CASE name = Radial -> <<[name |-> "build", color |-> Red],
                            [name |-> "notes", color |-> Green]>>
      [] name = Polar -> <<[name |-> "log", color |-> Blue]>>
      [] OTHER -> <<[name |-> "misc", color |-> NotAColor]>>

\* What the typst query can say of one theme: nothing (the theme is not in
\* the package), none, an empty list, or its list.
ThemeOptions(name) ==
    {<<>>, <<[name |-> name, entries |-> None]>>,
     <<[name |-> name, entries |-> Some(NoEntries)]>>,
     <<[name |-> name, entries |-> Some(PaletteOf(name))]>>}

MetadataResults ==
    {r \o q \o d : r \in ThemeOptions(Radial), q \in ThemeOptions(Polar),
                   d \in ThemeOptions(Dial)}

ThemesRadial == <<"t", "h", "e", "m", "e", "s", ".", "r", "a", "d", "i", "a", "l">>
ThemesPolar == <<"t", "h", "e", "m", "e", "s", ".", "p", "o", "l", "a", "r">>
DarkRadial == <<"d", "a", "r", "k", "-", "r", "a", "d", "i", "a", "l">>
ThemesLinear == <<"t", "h", "e", "m", "e", "s", ".", "l", "i", "n", "e", "a", "r">>

CandidateTexts == {ThemesRadial, ThemesPolar, DarkRadial, ThemesLinear}

\* Bound: theme arguments found in ./main.typ.
MaxCandidates == 2

\* lines 186-214: themes without entries are dropped, the rest collected
\* into the map (a later item of the same name replaces an earlier one).
collect_theme_entries(data) ==
    LET kept == {i \in 1..Len(data) : data[i].entries.some}
        names == {data[i].name : i \in kept}
        last(n) == CHOOSE i \in kept :
                      data[i].name = n /\ \A j \in kept : data[j].name = n => j <= i
    IN [n \in names |-> data[last(n)].entries.val]

\* The orders a HashMap's iterator can visit its keys in.
IterationOrders(map) ==
    {o \in [1..Cardinality(DOMAIN map) -> DOMAIN map] :
        \A n \in DOMAIN map : \E i \in 1..Cardinality(DOMAIN map) : o[i] = n}

Returned(kind, map, name) ==
    [kind |-> kind, theme |-> name, entries |-> map[name], diag |-> kind = "default"]

\* Mutant of resolve: the loops nested the other way, themes outermost.
resolve_theme_major(map, cands, order) ==
    LET hits == {h \in (1..Len(cands)) \X (1..Len(order)) :
                    contains(cands[h[1]], order[h[2]])}
    IN IF hits # {}
       THEN LET h == CHOOSE h \in hits : \A g \in hits :
                        h[2] < g[2] \/ (h[2] = g[2] /\ h[1] <= g[1])
            IN Returned("match", map, order[h[2]])
       ELSE IF Radial \in DOMAIN map THEN Returned("default", map, Radial)
       ELSE IF Len(order) > 0 THEN Returned("default", map, order[1])
       ELSE [kind |-> "panic", theme |-> <<>>, entries |-> <<>>, diag |-> FALSE]

\* lines 255-270: the first candidate, and for it the first theme the map's
\* iterator gives, with the theme's name in the candidate's text; without
\* one, the key "radial", else the first the iterator gives, else a panic.
resolve(map, cands, order) ==
    LET hits == {h \in (1..Len(cands)) \X (1..Len(order)) :
                    contains(cands[h[1]], order[h[2]])}
    IN IF hits # {}
       THEN LET h == CHOOSE h \in hits : \A g \in hits :
                        h[1] < g[1] \/ (h[1] = g[1] /\ h[2] <= g[2])
            IN Returned("match", map, order[h[2]])
       ELSE IF Radial \in DOMAIN map THEN Returned("default", map, Radial)
       ELSE IF Len(order) > 0 THEN Returned("default", map, order[1])
       ELSE [kind |-> "panic", theme |-> <<>>, entries |-> <<>>, diag |-> FALSE]

\* lines 155-214: the query's answer is parsed into the map.
ParseMetadata(p) ==
    /\ qpc[p] = "query"
    /\ theme_entries_map' =
         [theme_entries_map EXCEPT ![p] = collect_theme_entries(raw_metadata)]
    /\ qpc' = [qpc EXCEPT ![p] = "resolve"]
    /\ UNCHANGED <<matVars, colorVars, raw_metadata, user_themes, resolved,
                   entry_types_vec, type_scroll>>

\* lines 226-271: the resolver, under the order this run's map iterates in.
Resolve(p) ==
    /\ qpc[p] = "resolve"
    /\ \E order \in IterationOrders(theme_entries_map[p]) :
        LET res == resolve(theme_entries_map[p], user_themes, order) IN
        /\ resolved' = [resolved EXCEPT ![p] = res]
        /\ qpc' = [qpc EXCEPT ![p] = IF res.kind = "panic" THEN "panic" ELSE "collect"]
    /\ UNCHANGED <<matVars, colorVars, raw_metadata, user_themes, theme_entries_map,
                   entry_types_vec, type_scroll>>

\* lines 279-280 (with 147-151): every pair goes through from_string_pair.
Collect(p) ==
    /\ qpc[p] = "collect"
    /\ LET pairs == resolved[p].entries
           types == [i \in 1..Len(pairs) |->
                        [name |-> pairs[i].name, color |-> from_string_pair(pairs[i].color)]]
       IN IF \E i \in 1..Len(types) : types[i].color.status = "panic"
          THEN /\ qpc' = [qpc EXCEPT ![p] = "panic"]
               /\ UNCHANGED entry_types_vec
          ELSE /\ qpc' = [qpc EXCEPT ![p] = "build_menu"]
               /\ entry_types_vec' = [entry_types_vec EXCEPT ![p] = types]
    /\ UNCHANGED <<matVars, colorVars, raw_metadata, user_themes, theme_entries_map,
                   resolved, type_scroll>>

\* lines 285-318 (with 61-66): the menu is built; the "type" scroll gets one
\* value for each entry type, its colour escape and its name.
BuildMenu(p) ==
    /\ qpc[p] = "build_menu"
    /\ type_scroll' = [type_scroll EXCEPT ![p] = entry_types_vec[p]]
    /\ qpc' = [qpc EXCEPT ![p] = "menu"]
    /\ UNCHANGED <<matVars, colorVars, raw_metadata, user_themes, theme_entries_map,
                   resolved, entry_types_vec>>

\* SpecTheme: two runs of the tool on the same package and the same main.typ.
InitTheme ==
    /\ MatIdle
    /\ ColorIdle
    /\ raw_metadata \in MetadataResults
    /\ user_themes \in SeqsUpTo(CandidateTexts, MaxCandidates)
    /\ qpc = [p \in Procs |-> "query"]
    /\ theme_entries_map = [p \in Procs |-> <<>>]
    /\ resolved = [p \in Procs |-> NoResult]
    /\ entry_types_vec = [p \in Procs |-> <<>>]
    /\ type_scroll = [p \in Procs |-> <<>>]

NextTheme ==
    \E p \in Procs :
        \/ ParseMetadata(p)
        \/ Resolve(p)
        \/ Collect(p)
        \/ BuildMenu(p)

SpecTheme == InitTheme /\ [][NextTheme]_vars

---------------------------------------------------------------------------
(* Properties of the entry materializer.                                   *)

\* The process exit code: Ok(()) is 0, Err(..) from main is 1, a panic 101.
ExitCode(p) ==
    CASE pc[p] = "done" -> 0
      [] pc[p] = "exit_err" -> 1
      [] pc[p] = "panic" -> 101
      [] OTHER -> -1

SlashEntriesSlash == <<"/", "e", "n", "t", "r", "i", "e", "s", "/">>

\* The file the run of p is about, as the file system names it.
EntryNode(p) == Norm(entry_file_path(title_input[p]))

\* C1: after a run that exits 0 the entry file it created exists, and
\* entries.typ is its contents at the start of the run followed by exactly
\* "\n\n#include \"<path>\"", <path> being the entry file's path without its
\* leading '.', which starts with /entries/.
C1_AggregatorAppend ==
    ExitCode(1) = 0 =>
        LET path == entry_file_path(title_input[1]) IN
        /\ created[1]
        /\ EntryNode(1) \in DOMAIN files
        /\ EntryNode(1) \notin DOMAIN start_fs[1].files
        /\ path[1] = "."
        /\ IsPrefix(SlashEntriesSlash, Tail(path))
        /\ entries_typ.exists
        /\ entries_typ.bytes =
             start_fs[1].entries_typ.bytes \o IncludeHead \o Tail(path) \o IncludeTail

\* C1 witness: a second successful run, appending after the first run's include.
C1_Witness ==
    /\ pc[1] = "done"
    /\ runs = 2
    /\ Len(start_fs[1].entries_typ.bytes) > Len(IncludeHead)
    /\ title_input[1] = <<"A", "/", "b">>

\* C2: a title whose last '/'-separated segment is empty ends the run with
\* "title must be specified!" and a non-zero exit, the file system unchanged.
C2_EmptyTitleRejected ==
    (/\ pc[1] \notin {"menu", "check_title", "off"}
     /\ Last(Split(title_input[1], "/")) = <<>>)
        => /\ pc[1] = "exit_err"
           /\ exit_msg[1] = "title must be specified!"
           /\ ExitCode(1) # 0
           /\ FsNow = start_fs[1]
           /\ ~created[1] /\ ~wrote_entry[1] /\ ~appended[1]

\* C2 witness: the rejection, on a notebook that already holds an entry.
C2_Witness ==
    /\ pc[1] = "exit_err"
    /\ title_input[1] = <<"/">>
    /\ DOMAIN files # {}
    /\ FsNow = start_fs[1]

Nested == <<"n", "e", "s", "t", "e", "d">>
DeepUEntry == <<"d", "e", "e", "p", "_", "e", "n", "t", "r", "y">>
DeepSpaceEntry == <<"D", "e", "e", "p", " ", "E", "n", "t", "r", "y">>

\* C3: the title "Nested/Deep Entry/" is materialized with its trailing '/'
\* trimmed: on a notebook with its aggregator in place the run succeeds,
\* creates ./entries/nested/deep_entry/ and deep_entry.typ in it, and writes
\* the template with the title "Deep Entry".
C3_TrailingSlashMaterialized ==
    (/\ Ended(1)
     /\ title_input[1] = NestedDeepEntrySlash
     /\ start_fs[1].entries_typ.exists
     /\ ~fault_used)
        => /\ pc[1] = "done"
           /\ <<Entries, Nested, DeepUEntry>> \in dirs
           /\ <<Entries, Nested, DeepUEntry, DeepUEntry \o DotTyp>> \in DOMAIN files
           /\ files[<<Entries, Nested, DeepUEntry, DeepUEntry \o DotTyp>>].title
                = DeepSpaceEntry

\* C4: when the entry file's path exists already, directory creation passes
\* (no run dies in it), and file creation aborts the run with a non-zero
\* exit, the existing file as it was and nothing appended to entries.typ.
C4_ExistingEntryNotClobbered ==
    (/\ pc[1] \in {"mkdir", "create_new", "write_entry", "open_agg", "append",
                   "done", "panic"}
     /\ EntryNode(1) \in DOMAIN start_fs[1].files)
        => /\ exit_msg[1] # "Failed to make part of entry directory"
           /\ pc[1] \in {"mkdir", "create_new", "panic"}
           /\ pc[1] = "panic" =>
                /\ exit_msg[1] = "Failed to make entry typst file"
                /\ ExitCode(1) # 0
           /\ files = start_fs[1].files
           /\ entries_typ = start_fs[1].entries_typ
           /\ ~created[1] /\ ~wrote_entry[1] /\ ~appended[1]

\* C4 witness: the second run dies at file creation on the first run's file.
C4_Witness ==
    /\ pc[1] = "panic"
    /\ exit_msg[1] = "Failed to make entry typst file"
    /\ title_input[1] = <<"a">>
    /\ files[EntryNode(1)].title = <<"A">>
    /\ entries_typ = start_fs[1].entries_typ

\* The run of p died in the aggregator update.
AggregatorFailed(p) ==
    /\ pc[p] = "panic"
    /\ exit_msg[p] \in {"Failed to open ./entries/entries.typ",
                        "Failed to write to ./entries/entries.typ"}

\* C5 as stated: a failure to open or write entries.typ aborts the run and
\* leaves no partial state: no new entry file, no entry without its include.
C5_NoPartialState ==
    AggregatorFailed(1) =>
        /\ ExitCode(1) # 0
        /\ files = start_fs[1].files

\* C5 as amended: a failure to open or write entries.typ aborts the run
\* with a non-zero exit and leaves the entry file the run created on disk,
\* complete, with no complete include of it added to entries.typ.
C5_OrphanEntryRemains ==
    AggregatorFailed(1) =>
        /\ ExitCode(1) # 0
        /\ created[1]
        /\ EntryNode(1) \notin DOMAIN start_fs[1].files
        /\ EntryNode(1) \in DOMAIN files
        /\ files[EntryNode(1)] =
             [section |-> section[1], title |-> Last(Split(title_input[1], "/"))]
        /\ IsPrefix(start_fs[1].entries_typ.bytes, entries_typ.bytes)
        /\ Len(entries_typ.bytes) - Len(start_fs[1].entries_typ.bytes)
             < Len(IncludeHead) + Len(entry_file_path(title_input[1])) - 1
                 + Len(IncludeTail)

\* C5 witness: the write to entries.typ failed part of the way.
C5_Witness ==
    /\ AggregatorFailed(1)
    /\ exit_msg[1] = "Failed to write to ./entries/entries.typ"
    /\ Len(entries_typ.bytes) > Len(start_fs[1].entries_typ.bytes)
    /\ EntryNode(1) \in DOMAIN files

\* C10: two concurrent invocations with the same title both pass directory
\* creation, at most one creates the entry file, the other neither writes
\* the entry file nor appends; when both have ended exactly one has
\* succeeded and entries.typ is its first contents plus the one include.
C10_ConcurrentSameTitle ==
    (title_input[1] = title_input[2] /\ Len(Last(Split(title_input[1], "/"))) > 0)
        => /\ \A p \in Procs :
                /\ exit_msg[p] # "Failed to make part of entry directory"
                /\ wrote_entry[p] => created[p]
                /\ appended[p] => created[p]
                /\ pc[p] \in {"open_agg", "append", "done"} => wrote_entry[p]
           /\ ~(created[1] /\ created[2])
           /\ (Ended(1) /\ Ended(2)) =>
                \E w \in Procs : \E l \in Procs \ {w} :
                    /\ pc[w] = "done" /\ created[w]
                    /\ pc[l] = "panic"
                    /\ exit_msg[l] = "Failed to make entry typst file"
                    /\ files[EntryNode(w)] =
                         [section |-> section[w],
                          title |-> Last(Split(title_input[w], "/"))]
                    /\ entries_typ.bytes =
                         start_fs[w].entries_typ.bytes \o IncludeHead
                            \o Tail(entry_file_path(title_input[w])) \o IncludeTail

\* C10 witness: both ended, the second invocation won the creation.
C10_Witness ==
    /\ Ended(1) /\ Ended(2)
    /\ pc[1] = "panic" /\ pc[2] = "done"
    /\ title_input[1] = <<"A", "/", "b">>
    /\ section[1] # section[2]

---------------------------------------------------------------------------
(* Properties of the colour decoder.                                       *)

\* rgb("# + six hex digits + ") and nothing else.
ExactRgbLiteral(s) ==
    /\ Len(s) = Len(RgbPrefix) + 6 + Len(RgbSuffix)
    /\ IsPrefix(RgbPrefix, s)
    /\ IsSuffix(RgbSuffix, s)
    /\ \A i \in (Len(RgbPrefix) + 1)..(Len(RgbPrefix) + 6) : IsHexDigit(s[i])

\* C9: a colour text is accepted only when it is exactly rgb("# + six hex
\* digits + "), and then gives the octets r, g, b in order; every other
\* text aborts the program.
C9_OnlyExactLiteralAccepted ==
    cpc = "done" =>
        /\ color_result.status = "ok" <=> ExactRgbLiteral(color_str)
        /\ ExactRgbLiteral(color_str) =>
             LET d == SubSeq(color_str, Len(RgbPrefix) + 1, Len(RgbPrefix) + 6) IN
             /\ color_result.r = DigitsVal(SubSeq(d, 1, 2))
             /\ color_result.g = DigitsVal(SubSeq(d, 3, 4))
             /\ color_result.b = DigitsVal(SubSeq(d, 5, 6))

---------------------------------------------------------------------------
(* Properties of the theme resolver.                                       *)

HasReturned(p) == qpc[p] \in {"collect", "build_menu", "menu"}
ResolverEnded(p) == HasReturned(p) \/ (qpc[p] = "panic" /\ resolved[p].kind # "none")

Matches(p, i) == \E n \in DOMAIN theme_entries_map[p] : contains(user_themes[i], n)

\* C6: when some candidate contains a catalog theme name, the palette
\* returned is that of a theme whose name is in the first such candidate;
\* otherwise the palette of "radial" when present, else of some catalog
\* entry, else the run aborts; the diagnostic is printed only without a match.
C6_ResolutionPrecedence ==
    \A p \in Procs : ResolverEnded(p) =>
        LET map == theme_entries_map[p]
            res == resolved[p]
            hit == {i \in 1..Len(user_themes) : Matches(p, i)}
        IN IF hit # {}
           THEN LET first == CHOOSE i \in hit : \A j \in hit : i <= j IN
                /\ res.kind = "match"
                /\ res.theme \in DOMAIN map
                /\ contains(user_themes[first], res.theme)
                /\ res.entries = map[res.theme]
                /\ ~res.diag
           ELSE IF Radial \in DOMAIN map
           THEN res.kind = "default" /\ res.theme = Radial
                /\ res.entries = map[Radial] /\ res.diag
           ELSE IF DOMAIN map # {}
           THEN res.kind = "default" /\ res.theme \in DOMAIN map
                /\ res.entries = map[res.theme] /\ res.diag
           ELSE res.kind = "panic" /\ qpc[p] = "panic" /\ ~res.diag

\* C6 witness: two candidates, each naming a theme of the catalog; the
\* palette returned is that of the first candidate's theme.
C6_Witness ==
    /\ HasReturned(1)
    /\ user_themes = <<ThemesPolar, DarkRadial>>
    /\ {Radial, Polar} \subseteq DOMAIN theme_entries_map[1]
    /\ resolved[1].theme = Polar
    /\ resolved[1].entries = PaletteOf(Polar)

\* C7: two runs on the same catalog and the same candidates return the same
\* palette, whatever order the catalog is iterated in.
C7_ResolutionDeterminism ==
    (ResolverEnded(1) /\ ResolverEnded(2)) =>
        /\ resolved[1].kind = "panic" <=> resolved[2].kind = "panic"
        /\ resolved[1].entries = resolved[2].entries

=============================================================================
